---- MODULE Spec2Model ----
(***************************************************************************)
(* Model of conductor's vault transform plugin                             *)
(* (src/plugins/transform/vault.rs) and of the `ps` command                *)
(* (src/cmd/ps.rs).                                                        *)
(*                                                                         *)
(* Maps (BTreeMap) are functions whose domain is a finite set of strings;  *)
(* their iteration order is the sorted key order, given here by the        *)
(* sequences ServiceOrder and KeyOrder.  A template (dc::RawOr<String>) is *)
(* a sequence of pieces, each a literal text or a variable reference.      *)
(***************************************************************************)
EXTENDS Integers, Sequences, FiniteSets, TLC

VARIABLES
    config,       \* Plugin.config, the parsed config/vault.yml
    config0,      \* history: the config as it was at construction
    addr,         \* GenerateToken::addr() of Plugin.generator
    ctx,          \* plugins::Context: project, ovr and pod names
    file,         \* dc::File: services -> [image, environment]
    pre,          \* history: `file` as it was when the last transform began
    calls,        \* MockVaultCalls: (display_name, policies, ttl) per call
    returned,     \* history: what each generate_token call returned
    callers,      \* history: the service each call was made for
    preCalls,     \* history: Len(calls) when the last transform began
    writes,       \* history: environment inserts of the last transform
    result,       \* what the last transform returned
    invocations,  \* number of transform calls so far
    okCount,      \* number of transform calls that returned Ok(())
    ran,          \* TestCommandRunner: the commands recorded
    psActOn,      \* the act_on argument of the last ps call
    psResult,     \* what the last ps call returned
    psCalls       \* number of ps calls so far

vars == <<config, config0, addr, ctx, file, pre, calls, returned, callers, preCalls,
          writes, result, invocations, okCount, ran, psActOn, psResult,
          psCalls>>

vaultVars == <<config, config0, addr, ctx, file, pre, calls, returned, callers,
               preCalls, writes, result, invocations, okCount>>

psVars == <<ran, psActOn, psResult, psCalls>>

(***************************************************************************)
(* Bounds.                                                                 *)
(***************************************************************************)
MaxInvocations == 2

MaxPsCalls == 2

MaxNames == 3

(***************************************************************************)
(* Templates and their interpolation.                                      *)
(***************************************************************************)
Lit(s) == [var |-> FALSE, text |-> s]

Ref(n) == [var |-> TRUE, text |-> n]

\* ConfigEnvironment::var: the four names of the fake environment.
EnvVar(service, key) ==
    CASE key = "PROJECT"  -> [ok |-> TRUE, val |-> ctx.project]
      [] key = "OVERRIDE" -> [ok |-> TRUE, val |-> ctx.ovr]
      [] key = "POD"      -> [ok |-> TRUE, val |-> ctx.pod]
      [] key = "SERVICE"  -> [ok |-> TRUE, val |-> service]
      [] OTHER            -> [ok |-> FALSE, val |-> key]

\* The closure `interpolated`: every variable reference of the template is
\* replaced by the environment's value; the first reference the environment
\* does not know fails the whole interpolation.
RECURSIVE Interpolated(_, _)
Interpolated(service, raw_val) ==
    IF raw_val = <<>> THEN [ok |-> TRUE, val |-> ""]
    ELSE LET piece == Head(raw_val)
             here  == IF piece.var THEN EnvVar(service, piece.text)
                      ELSE [ok |-> TRUE, val |-> piece.text]
         IN  IF ~here.ok THEN [ok |-> FALSE, val |-> piece.text]
             ELSE LET rest == Interpolated(service, Tail(raw_val))
                  IN  IF rest.ok THEN [ok |-> TRUE, val |-> here.val \o rest.val]
                      ELSE rest

(***************************************************************************)
(* Maps.                                                                   *)
(***************************************************************************)
EmptyMap == <<>>

\* Option::and_then over BTreeMap::get
Has(m, k) == k \in DOMAIN m

\* mutated: the map is replaced by one that holds the new entry alone
EnvInsertFresh(env, k, v) == [x \in {k} |-> v]

\* mutated: the value of a key that is present is kept
EnvInsertKeep(env, k, v) ==
    [x \in DOMAIN env \cup {k} |-> IF x \in DOMAIN env THEN env[x] ELSE v]

\* BTreeMap::insert: adds the key or overwrites its value.
EnvInsert(env, k, v) ==
    [x \in DOMAIN env \cup {k} |-> IF x = k THEN v ELSE env[x]]

RECURSIVE Restrict(_, _)
\* the members of the sequence `order` that are in set S, in order
Restrict(order, S) ==
    IF order = <<>> THEN <<>>
    ELSE IF Head(order) \in S THEN <<Head(order)>> \o Restrict(Tail(order), S)
         ELSE Restrict(Tail(order), S)

ServiceNames == {"db", "web"}

\* BTreeMap<String, Service> iterates in key order
ServiceOrder == <<"db", "web">>

\* BTreeMap<String, RawOr<String>> iterates in key order
KeyOrder == <<"HOME", "VAULT_ADDR", "VAULT_ENV", "VAULT_TOKEN", "ZONE">>

(***************************************************************************)
(* The inputs the model draws from.                                        *)
(***************************************************************************)
TPO == <<Ref("PROJECT"), Lit("-"), Ref("OVERRIDE")>>

TFull == <<Ref("PROJECT"), Lit("-"), Ref("OVERRIDE"), Lit("-"),
           Ref("POD"), Lit("-"), Ref("SERVICE")>>

TSsl == <<Ref("PROJECT"), Lit("-"), Ref("OVERRIDE"), Lit("-ssl")>>

\* a template that refers to a variable the fake environment lacks
TBad == <<Lit("home-"), Ref("HOME")>>

DefaultPoliciesChoices == {<<>>, <<TPO, TFull, TSsl>>, <<TSsl, TBad>>}

PodsChoices ==
    { EmptyMap,
      ("frontend" :> ("web" :> [policies |-> <<TSsl, TFull>>])),
      ("frontend" :> ("db" :> [policies |-> <<TBad>>]))
        @@ ("worker" :> (("db" :> [policies |-> <<TPO>>])
                         @@ ("web" :> [policies |-> <<TBad>>]))) }

ExtraChoices ==
    { EmptyMap,
      ("VAULT_ENV" :> <<Ref("OVERRIDE")>>),
      ("HOME" :> <<Lit("/srv/"), Ref("SERVICE")>>)
        @@ ("VAULT_ADDR" :> <<Lit("http://"), Ref("POD"), Lit(":8200/")>>)
        @@ ("VAULT_TOKEN" :> <<Lit("static_token")>>),
      ("HOME" :> <<Lit("/srv/"), Ref("SERVICE")>>)
        @@ ("VAULT_ENV" :> TBad)
        @@ ("VAULT_TOKEN" :> <<Lit("static_token")>>),
      ("VAULT_TOKEN" :> <<Lit("static_token")>>)
        @@ ("ZONE" :> TBad) }

DefaultTtl == 2592000

Configs ==
    [default_policies : DefaultPoliciesChoices,
     pods : PodsChoices,
     default_ttl : {DefaultTtl},
     extra_environment : ExtraChoices]

Contexts ==
    [project : {"rails_hello", "app"},
     ovr : {"production", "test"},
     pod : {"frontend", "worker"}]

InitEnvs ==
    { EmptyMap,
      ("HOME" :> "/root") @@ ("RAILS_ENV" :> "production"),
      ("HOME" :> "/root") @@ ("VAULT_ADDR" :> "http://old:8200/")
        @@ ("VAULT_ENV" :> "old") @@ ("VAULT_TOKEN" :> "old_token") }

Services == [image : {"ruby"}, environment : InitEnvs]

Files ==
    UNION { {[services |-> m] : m \in [D -> Services]} : D \in SUBSET ServiceNames }

\* what a generate_token call can return
Outcomes ==
    { [ok |-> TRUE, val |-> "fake_token"],
      [ok |-> TRUE, val |-> "token_2"],
      [ok |-> FALSE, val |-> "BackendUnavailable"] }

(***************************************************************************)
(* Plugin::transform.  The loop state `st` holds the services, the         *)
(* recorded calls and writes, the backend's remaining answers and the      *)
(* result so far.                                                          *)
(***************************************************************************)
Ok == [ok |-> TRUE, err |-> "", svc |-> "", stage |-> ""]

Err(e, name, stage) == [ok |-> FALSE, err |-> e, svc |-> name, stage |-> stage]

\* service.environment.insert(k, v), with the write recorded
InsertEnv(st, name, k, v) ==
    [st EXCEPT !.services[name].environment = EnvInsert(@, k, v),
               !.writes = Append(@, <<name, k, v>>)]

\* mutated: the pod's policies come first
RawPoliciesSwapped(name) ==
    (IF Has(config.pods, ctx.pod) /\ Has(config.pods[ctx.pod], name)
     THEN config.pods[ctx.pod][name].policies
     ELSE <<>>) \o config.default_policies

\* raw_policies: the default policies extended by pods[pod][name].policies
RawPolicies(name) ==
    config.default_policies \o
        (IF Has(config.pods, ctx.pod) /\ Has(config.pods[ctx.pod], name)
         THEN config.pods[ctx.pod][name].policies
         ELSE <<>>)

RECURSIVE InterpolateAll(_, _)
\* the loop that pushes each interpolated policy, returning the first error
InterpolateAll(name, raw_policies) ==
    IF raw_policies = <<>> THEN [ok |-> TRUE, val |-> <<>>]
    ELSE LET r == Interpolated(name, Head(raw_policies))
         IN  IF ~r.ok THEN [ok |-> FALSE, val |-> <<>>]
             ELSE LET rest == InterpolateAll(name, Tail(raw_policies))
                  IN  IF rest.ok THEN [ok |-> TRUE, val |-> <<r.val>> \o rest.val]
                      ELSE rest

\* mutated: the names are joined in another order
DisplayNameSwapped(name) ==
    ctx.project \o "-" \o ctx.pod \o "-" \o ctx.ovr \o "-" \o name

\* format!("{}-{}-{}-{}", project, ovr, pod, name)
DisplayName(name) ==
    ctx.project \o "-" \o ctx.ovr \o "-" \o ctx.pod \o "-" \o name

\* generator.generate_token(...): the call is recorded and the backend's
\* next answer is what it returns
GenerateToken(st, display_name, policies, ttl) ==
    [st EXCEPT !.calls = Append(@, <<display_name, policies, ttl>>),
               !.returned = Append(@, Head(st.backend)),
               !.backend = Tail(@)]

RECURSIVE ExtraEnvironmentAtomic(_, _, _)
\* mutated: nothing is written unless every template interpolates
ExtraEnvironmentAtomic(st, name, keys) ==
    IF \E k \in DOMAIN config.extra_environment :
          ~Interpolated(name, config.extra_environment[k]).ok
    THEN [st EXCEPT !.result = Err("UndefinedVariable", name, "extra")]
    ELSE IF keys = <<>> THEN st
    ELSE ExtraEnvironmentAtomic(
             InsertEnv(st, name, Head(keys),
                       Interpolated(name, config.extra_environment[Head(keys)]).val),
             name, Tail(keys))

RECURSIVE ExtraEnvironment(_, _, _)
\* for (var, val) in &self.config.extra_environment { insert(var, try!(..)) }
ExtraEnvironment(st, name, keys) ==
    IF keys = <<>> THEN st
    ELSE LET r == Interpolated(name, config.extra_environment[Head(keys)])
         IN  IF ~r.ok
             THEN [st EXCEPT !.result = Err("UndefinedVariable", name, "extra")]
             ELSE ExtraEnvironment(InsertEnv(st, name, Head(keys), r.val),
                                   name, Tail(keys))

\* mutated: VAULT_ADDR is inserted together with VAULT_TOKEN
TransformServiceLate(st, name) ==
    LET pol == InterpolateAll(name, RawPolicies(name))
    IN  IF ~pol.ok
        THEN [st EXCEPT !.result = Err("UndefinedVariable", name, "policy")]
        ELSE LET s2  == [GenerateToken(st, DisplayName(name), pol.val,
                                       config.default_ttl)
                           EXCEPT !.callers = Append(@, name)]
                 tok == s2.returned[Len(s2.returned)]
             IN  IF ~tok.ok
                 THEN [s2 EXCEPT !.result = Err(tok.val, name, "token")]
                 ELSE ExtraEnvironment(
                          InsertEnv(InsertEnv(s2, name, "VAULT_ADDR", addr),
                                    name, "VAULT_TOKEN", tok.val), name,
                          Restrict(KeyOrder, DOMAIN config.extra_environment))

\* the body of the loop over the services
TransformService(st, name) ==
    LET s1  == InsertEnv(st, name, "VAULT_ADDR", addr)
        pol == InterpolateAll(name, RawPolicies(name))
    IN  IF ~pol.ok
        THEN [s1 EXCEPT !.result = Err("UndefinedVariable", name, "policy")]
        ELSE LET s2  == [GenerateToken(s1, DisplayName(name), pol.val,
                                       config.default_ttl)
                           EXCEPT !.callers = Append(@, name)]
                 tok == s2.returned[Len(s2.returned)]
             IN  IF ~tok.ok
                 THEN [s2 EXCEPT !.result = Err(tok.val, name, "token")]
                 ELSE ExtraEnvironment(
                          InsertEnv(s2, name, "VAULT_TOKEN", tok.val), name,
                          Restrict(KeyOrder, DOMAIN config.extra_environment))

RECURSIVE TransformLoopCached(_, _)
\* mutated: a service that already holds a VAULT_TOKEN is skipped
TransformLoopCached(st, names) ==
    IF names = <<>> THEN st
    ELSE IF "VAULT_TOKEN" \in DOMAIN st.services[Head(names)].environment
         THEN TransformLoopCached(st, Tail(names))
         ELSE LET s == TransformService(st, Head(names))
              IN  IF ~s.result.ok THEN s ELSE TransformLoopCached(s, Tail(names))

RECURSIVE TransformLoopContinue(_, _)
\* mutated: the loop goes on after an error and reports the first one
TransformLoopContinue(st, names) ==
    IF names = <<>> THEN st
    ELSE LET s == TransformService(st, Head(names))
         IN  TransformLoopContinue(
                 IF st.result.ok THEN s ELSE [s EXCEPT !.result = st.result],
                 Tail(names))

RECURSIVE TransformLoop(_, _)
\* for (name, service) in &mut file.services, left at the first error
TransformLoop(st, names) ==
    IF names = <<>> THEN st
    ELSE LET s == TransformService(st, Head(names))
         IN  IF ~s.result.ok THEN s ELSE TransformLoop(s, Tail(names))

ServicesOf(f) == Restrict(ServiceOrder, DOMAIN f.services)

Transform ==
    /\ invocations < MaxInvocations
    /\ \E backend \in [1..Cardinality(DOMAIN file.services) -> Outcomes] :
          LET st0 == [services |-> file.services, calls |-> calls,
                      returned |-> returned, callers |-> callers,
                      writes |-> <<>>,
                      backend |-> backend, result |-> Ok]
              st  == TransformLoop(st0, ServicesOf(file))
          IN  /\ file' = [file EXCEPT !.services = st.services]
              /\ calls' = st.calls
              /\ returned' = st.returned
              /\ callers' = st.callers
              /\ writes' = st.writes
              /\ result' = st.result
              /\ okCount' = IF st.result.ok THEN okCount + 1 ELSE okCount
    /\ pre' = file
    /\ preCalls' = Len(calls)
    /\ invocations' = invocations + 1
    /\ UNCHANGED <<config, config0, addr, ctx>>
    /\ UNCHANGED psVars

InitVault ==
    /\ config \in Configs
    /\ config0 = config
    /\ addr = "http://example.com:8200/"
    /\ ctx \in Contexts
    /\ file \in Files
    /\ pre = file
    /\ calls = <<>>
    /\ returned = <<>>
    /\ callers = <<>>
    /\ preCalls = 0
    /\ writes = <<>>
    /\ result = Ok
    /\ invocations = 0
    /\ okCount = 0

(***************************************************************************)
(* The ps command.  An act_on is ActOn::All or ActOn::Named(names).        *)
(***************************************************************************)
PsTargets == {"frontend", "web", "nosuch"}

RECURSIVE SeqsUpTo(_, _)
\* the sequences over S of length at most n
SeqsUpTo(S, n) ==
    IF n = 0 THEN {<<>>}
    ELSE LET shorter == SeqsUpTo(S, n - 1)
         IN  shorter \cup {Append(q, x) : q \in shorter, x \in S}

ActOns ==
    {[all |-> TRUE, names |-> <<>>]}
      \cup {[all |-> FALSE, names |-> ns] : ns \in SeqsUpTo(PsTargets, MaxNames)}

\* the command line run for one pod or service
ComposeCommand(command, target, only_ids) ==
    <<"docker-compose", "-p", "railshello", "-f", "pods/frontend.yml", command>>
      \o (IF only_ids THEN <<"-q">> ELSE <<>>)
      \o (IF target = "web" THEN <<"web">> ELSE <<>>)

RECURSIVE ComposeEach(_, _, _, _)
ComposeEach(st, command, targets, only_ids) ==
    IF targets = <<>> THEN st
    ELSE IF Head(targets) \notin {"frontend", "web"}
         THEN [st EXCEPT !.result = "err"]
         ELSE ComposeEach(
                  [st EXCEPT !.ran = Append(@, ComposeCommand(command, Head(targets),
                                                              only_ids))],
                  command, Tail(targets), only_ids)

\* Project::compose: docker-compose is run for each pod or service that
\* act_on names; a name that is neither is an error
Compose(st, command, act_on, only_ids) ==
    ComposeEach(st, command,
                IF act_on.all THEN <<"frontend">> ELSE act_on.names, only_ids)

\* mutated: any non-empty list of names is let through
PsGuardAtLeastOne(act_on) == ~act_on.all /\ Len(act_on.names) >= 1

\* args::ActOn::Named(ref names) if names.len() == 1
PsGuard(act_on) == ~act_on.all /\ Len(act_on.names) = 1

\* CommandPs for Project :: ps
PsBody(st, act_on, only_ids) ==
    IF PsGuard(act_on) THEN Compose(st, "ps", act_on, only_ids)
    ELSE [st EXCEPT !.result = "err"]

Ps ==
    /\ psCalls < MaxPsCalls
    /\ \E act_on \in ActOns, only_ids \in BOOLEAN :
          LET st == PsBody([ran |-> ran, result |-> "ok"], act_on, only_ids)
          IN  /\ ran' = st.ran
              /\ psResult' = st.result
              /\ psActOn' = act_on
    /\ psCalls' = psCalls + 1
    /\ UNCHANGED vaultVars

InitPs ==
    /\ ran = <<>>
    /\ psActOn = [all |-> TRUE, names |-> <<>>]
    /\ psResult = "none"
    /\ psCalls = 0

Init == InitVault /\ InitPs

Next == Transform

Spec == Init /\ [][Next]_vars

\* the vault plugin of the rails_hello example
InitExample ==
    /\ config = [default_policies |-> <<TPO, TFull, TSsl>>,
                 pods |-> EmptyMap,
                 default_ttl |-> DefaultTtl,
                 extra_environment |-> ("VAULT_ENV" :> <<Ref("OVERRIDE")>>)]
    /\ ctx = [project |-> "rails_hello", ovr |-> "production", pod |-> "frontend"]
    /\ file = [services |-> ("web" :> [image |-> "ruby", environment |-> EmptyMap])]
    /\ InitVault

InitOfPs == InitExample /\ InitPs

NextPs == Ps

SpecPs == InitOfPs /\ [][NextPs]_vars

(***************************************************************************)
(* Vocabulary of the properties.                                           *)
(***************************************************************************)
InTree(s) == s \in DOMAIN file.services

Pos(s) == CHOOSE i \in 1..Len(ServiceOrder) : ServiceOrder[i] = s

EnvOf(s) == file.services[s].environment

PreEnvOf(s) == pre.services[s].environment

ExtraKeys == DOMAIN config.extra_environment

\* environment env maps key k to value v
Holds(env, k, v) == k \in DOMAIN env /\ env[k] = v

ExtraValue(s, k) == Interpolated(s, config.extra_environment[k]).val

\* the calls of the last transform, and those made for service s
LastCalls == (preCalls + 1)..Len(calls)

CallsOf(s) == {i \in LastCalls : callers[i] = s}

TokenOf(s) == returned[CHOOSE i \in CallsOf(s) : TRUE].val

WritesOf(s) == {i \in 1..Len(writes) : writes[i][1] = s}

\* the last transform processed s without error
ProcessedOk(s) ==
    /\ invocations > 0
    /\ InTree(s)
    /\ result.ok \/ Pos(s) < Pos(result.svc)

\* the last transform failed in s
FailedIn(s) == invocations > 0 /\ ~result.ok /\ result.svc = s

\* the last transform failed in a service before s
Follows(s) == invocations > 0 /\ InTree(s) /\ ~result.ok /\ Pos(s) > Pos(result.svc)

InterpolatedEach(s, raws) == [i \in 1..Len(raws) |-> Interpolated(s, raws[i]).val]

(***************************************************************************)
(* C1                                                                      *)
(***************************************************************************)
\* C1, as stated: every service processed without error holds VAULT_ADDR equal
\* to the backend's address and VAULT_TOKEN equal to the token its
\* generate_token call returned, whatever extra_environment contains.
C1_AddrAndTokenAlways ==
    \A s \in ServiceNames : ProcessedOk(s) =>
        /\ "VAULT_ADDR" \in DOMAIN EnvOf(s)
        /\ EnvOf(s)["VAULT_ADDR"] = addr
        /\ "VAULT_TOKEN" \in DOMAIN EnvOf(s)
        /\ CallsOf(s) # {}
        /\ EnvOf(s)["VAULT_TOKEN"] = TokenOf(s)

\* C1, amended: every service processed without error holds VAULT_ADDR and
\* VAULT_TOKEN; VAULT_ADDR is the backend's address unless extra_environment
\* names VAULT_ADDR, and VAULT_TOKEN is the token returned by the service's
\* generate_token call unless extra_environment names VAULT_TOKEN.
C1_AddrAndTokenUnlessExtra ==
    \A s \in ServiceNames : ProcessedOk(s) =>
        /\ "VAULT_ADDR" \in DOMAIN EnvOf(s)
        /\ "VAULT_ADDR" \notin ExtraKeys => EnvOf(s)["VAULT_ADDR"] = addr
        /\ "VAULT_TOKEN" \in DOMAIN EnvOf(s)
        /\ CallsOf(s) # {}
        /\ "VAULT_TOKEN" \notin ExtraKeys => EnvOf(s)["VAULT_TOKEN"] = TokenOf(s)

\* two services processed, each holding its own token and the address in
\* place of the values they held before
C1_Witness ==
    /\ result.ok /\ invocations > 0
    /\ InTree("db") /\ InTree("web")
    /\ ExtraKeys = {"VAULT_ENV"}
    /\ Holds(PreEnvOf("web"), "VAULT_ADDR", "http://old:8200/")
    /\ Holds(EnvOf("web"), "VAULT_ADDR", addr)
    /\ Holds(EnvOf("db"), "VAULT_TOKEN", "fake_token")
    /\ Holds(EnvOf("web"), "VAULT_TOKEN", "token_2")

(***************************************************************************)
(* C2                                                                      *)
(***************************************************************************)
\* C2, as stated: every transform calls the backend exactly once for each
\* service of the tree, so k invocations over n services record k*n calls.
C2_CallsEveryInvocation ==
    Len(calls) = invocations * Cardinality(DOMAIN file.services)

\* C2, amended: a transform that returns Ok calls the backend exactly once for
\* each service of the tree, a transform that fails calls it at most once for
\* each service, and nothing is cached: k invocations that all return Ok record
\* k*n calls.
C2_OneCallPerServiceWhenOk ==
    /\ \A s \in ServiceNames : Cardinality(CallsOf(s)) <= 1
    /\ \A i \in LastCalls : InTree(callers[i])
    /\ (invocations > 0 /\ result.ok) =>
          /\ \A s \in DOMAIN file.services : Cardinality(CallsOf(s)) = 1
          /\ Len(calls) - preCalls = Cardinality(DOMAIN file.services)
    /\ okCount = invocations =>
          Len(calls) = invocations * Cardinality(DOMAIN file.services)

\* two successful invocations over a tree of two services that held tokens
\* from the start: four calls
C2_Witness ==
    /\ invocations = 2 /\ okCount = 2
    /\ DOMAIN file.services = {"db", "web"}
    /\ Len(calls) = 4
    /\ preCalls = 2
    /\ "VAULT_TOKEN" \in DOMAIN PreEnvOf("db")

(***************************************************************************)
(* C3                                                                      *)
(***************************************************************************)
\* C3: a failing transform stops at the first failure without retrying: the
\* services before the failing one keep every mutation (VAULT_ADDR,
\* VAULT_TOKEN, the extra_environment keys), the services after it get no
\* environment write and no backend call, and nothing is done after the
\* failure.
C3_FailStop ==
    \A f \in ServiceNames : FailedIn(f) =>
        /\ InTree(f)
        /\ Cardinality(CallsOf(f)) <= 1
        /\ result.stage = "token" =>
              /\ CallsOf(f) = {Len(calls)}
              /\ ~returned[Len(calls)].ok
        /\ writes # <<>> /\ writes[Len(writes)][1] = f
        /\ \A s \in DOMAIN file.services :
              /\ Pos(s) < Pos(f) =>
                    /\ Cardinality(CallsOf(s)) = 1
                    /\ \A k \in ExtraKeys :
                          k \in DOMAIN EnvOf(s) /\ EnvOf(s)[k] = ExtraValue(s, k)
                    /\ "VAULT_ADDR" \notin ExtraKeys => EnvOf(s)["VAULT_ADDR"] = addr
                    /\ "VAULT_TOKEN" \notin ExtraKeys =>
                          EnvOf(s)["VAULT_TOKEN"] = TokenOf(s)
              /\ Pos(s) > Pos(f) =>
                    /\ file.services[s] = pre.services[s]
                    /\ WritesOf(s) = {}
                    /\ CallsOf(s) = {}

\* web fails in a policy; db, before it, keeps its address, token and extras
C3_Witness ==
    /\ FailedIn("web") /\ InTree("web") /\ InTree("db")
    /\ result.err = "UndefinedVariable"
    /\ "HOME" \in ExtraKeys
    /\ PreEnvOf("db") = EmptyMap
    /\ Holds(EnvOf("db"), "VAULT_TOKEN", "static_token")
    /\ Holds(EnvOf("db"), "HOME", "/srv/db")
    /\ Cardinality(WritesOf("db")) = 5

(***************************************************************************)
(* C4                                                                      *)
(***************************************************************************)
\* C4: the policies passed to generate_token for service s are the
\* interpolated default_policies followed by the interpolated
\* pods[pod][s].policies when that entry exists, the interpolated
\* default_policies alone when it does not; duplicates are kept.
C4_PolicyList ==
    \A i \in 1..Len(calls) :
        LET s == callers[i]
        IN  calls[i][2] =
              IF ctx.pod \in DOMAIN config.pods /\ s \in DOMAIN config.pods[ctx.pod]
              THEN InterpolatedEach(s, config.default_policies)
                     \o InterpolatedEach(s, config.pods[ctx.pod][s].policies)
              ELSE InterpolatedEach(s, config.default_policies)

\* a call whose list holds the ssl policy twice, once from each source
C4_Witness ==
    \E i \in 1..Len(calls) :
        /\ callers[i] = "web"
        /\ Len(calls[i][2]) = 5
        /\ calls[i][2][3] = "rails_hello-production-ssl"
        /\ calls[i][2][4] = "rails_hello-production-ssl"
        /\ calls[i][2][5] = "rails_hello-production-frontend-web"

(***************************************************************************)
(* C5                                                                      *)
(***************************************************************************)
\* C5: the display name passed to generate_token for a service is
\* project-override-pod-service.
C5_DisplayName ==
    \A i \in 1..Len(calls) :
        calls[i][1] = ctx.project \o "-" \o ctx.ovr \o "-" \o ctx.pod
                        \o "-" \o callers[i]

C5_Witness ==
    \E i \in 1..Len(calls) :
        /\ calls[i][1] = "app-test-worker-db"
        /\ InTree("db") /\ PreEnvOf("db") # EmptyMap
        /\ config.pods # EmptyMap

(***************************************************************************)
(* C6                                                                      *)
(***************************************************************************)
\* C6: after a service is processed without error every key of
\* extra_environment maps to the interpolation of its template, whatever it
\* held before, VAULT_ADDR and VAULT_TOKEN included.
C6_ExtraOverwrites ==
    \A s \in ServiceNames : ProcessedOk(s) =>
        \A k \in ExtraKeys :
            k \in DOMAIN EnvOf(s) /\ EnvOf(s)[k] = ExtraValue(s, k)

\* the address and token written earlier in the iteration, and the HOME the
\* service held before, are overwritten
C6_Witness ==
    /\ ProcessedOk("web") /\ CallsOf("web") # {}
    /\ {"HOME", "VAULT_ADDR", "VAULT_TOKEN"} \subseteq ExtraKeys
    /\ Holds(PreEnvOf("web"), "HOME", "/root")
    /\ Holds(EnvOf("web"), "HOME", "/srv/web")
    /\ Holds(EnvOf("web"), "VAULT_ADDR", "http://worker:8200/")
    /\ "http://worker:8200/" # addr
    /\ Holds(EnvOf("web"), "VAULT_TOKEN", "static_token")
    /\ \A i \in CallsOf("web") : returned[i].val = "fake_token"

(***************************************************************************)
(* C7                                                                      *)
(***************************************************************************)
\* C7: a transform changes nothing but service environments, and there only
\* VAULT_ADDR, VAULT_TOKEN and the keys of extra_environment: other keys keep
\* their values, the tree keeps its services, and the config stays as
\* constructed.
C7_Frame ==
    /\ config = config0
    /\ DOMAIN file.services = DOMAIN pre.services
    /\ \A s \in DOMAIN file.services :
          LET touched == {"VAULT_ADDR", "VAULT_TOKEN"} \cup ExtraKeys
          IN  /\ file.services[s].image = pre.services[s].image
              /\ DOMAIN file.services[s] = DOMAIN pre.services[s]
              /\ DOMAIN PreEnvOf(s) \subseteq DOMAIN EnvOf(s)
              /\ DOMAIN EnvOf(s) \subseteq DOMAIN PreEnvOf(s) \cup touched
              /\ \A k \in DOMAIN PreEnvOf(s) \ touched : EnvOf(s)[k] = PreEnvOf(s)[k]
              /\ \A i \in WritesOf(s) : writes[i][2] \in touched

\* after two transforms a service holds a new token next to the keys it had
C7_Witness ==
    /\ invocations = 2 /\ result.ok
    /\ InTree("web")
    /\ Holds(EnvOf("web"), "RAILS_ENV", "production")
    /\ Holds(EnvOf("web"), "HOME", "/root")
    /\ Holds(EnvOf("web"), "VAULT_ENV", "test")
    /\ Holds(EnvOf("web"), "VAULT_TOKEN", "token_2")
    /\ ~Holds(PreEnvOf("web"), "VAULT_TOKEN", "token_2")

(***************************************************************************)
(* C8 (checked under SpecPs)                                               *)
(***************************************************************************)
IsSingle(act_on) == ~act_on.all /\ Len(act_on.names) = 1

\* C8: a ps call runs docker-compose ps only when act_on is Named with exactly
\* one name; for All, and for Named with no name or with two or more, it
\* returns an error and the runner records no command.
C8_PsOnlySingleName ==
    [][ psCalls' # psCalls =>
          /\ ~IsSingle(psActOn') => (psResult' = "err" /\ ran' = ran)
          /\ ran' # ran =>
                /\ IsSingle(psActOn')
                /\ Len(ran') = Len(ran) + 1
                /\ SubSeq(ran', 1, Len(ran)) = ran
                /\ ran'[Len(ran')][1] = "docker-compose"
                /\ ran'[Len(ran')][6] = "ps" ]_vars

\* a call naming two targets fails and leaves the one command recorded before
C8_Witness ==
    /\ psCalls = 2
    /\ psResult = "err"
    /\ psActOn = [all |-> FALSE, names |-> <<"frontend", "web">>]
    /\ ran = << <<"docker-compose", "-p", "railshello", "-f",
                  "pods/frontend.yml", "ps", "-q">> >>

(***************************************************************************)
(* C9                                                                      *)
(***************************************************************************)
\* C9: VAULT_ADDR is written before any step that can fail: when a transform
\* fails in service s while interpolating a policy or issuing the token, s
\* holds VAULT_ADDR equal to the backend's address and has received no
\* VAULT_TOKEN write from this invocation.
C9_AddrBeforeFailure ==
    \A f \in ServiceNames :
        (FailedIn(f) /\ result.stage \in {"policy", "token"}) =>
            /\ "VAULT_ADDR" \in DOMAIN EnvOf(f)
            /\ EnvOf(f)["VAULT_ADDR"] = addr
            /\ WritesOf(f) = {Len(writes)}
            /\ writes[Len(writes)] = <<f, "VAULT_ADDR", addr>>
            /\ "VAULT_TOKEN" \in DOMAIN EnvOf(f) <=> "VAULT_TOKEN" \in DOMAIN PreEnvOf(f)
            /\ "VAULT_TOKEN" \in DOMAIN EnvOf(f) =>
                  EnvOf(f)["VAULT_TOKEN"] = PreEnvOf(f)["VAULT_TOKEN"]

\* the backend refuses db's token: db holds the address and nothing else
C9_Witness ==
    /\ FailedIn("db") /\ InTree("db")
    /\ result.stage = "token"
    /\ result.err = "BackendUnavailable"
    /\ PreEnvOf("db") = EmptyMap
    /\ EnvOf("db") = ("VAULT_ADDR" :> addr)

(***************************************************************************)
(* C10                                                                     *)
(***************************************************************************)
ExtraOrder == Restrict(KeyOrder, ExtraKeys)

\* the position in ExtraOrder of the first template that fails for s
FailingEntry(s) ==
    CHOOSE n \in 1..Len(ExtraOrder) :
        /\ ~Interpolated(s, config.extra_environment[ExtraOrder[n]]).ok
        /\ \A j \in 1..(n - 1) :
              Interpolated(s, config.extra_environment[ExtraOrder[j]]).ok

\* what C10 says of the entries of extra_environment and of policy failures
EntriesAroundFailure(f) ==
    /\ result.stage = "extra" =>
          LET n == FailingEntry(f)
          IN  /\ Cardinality(CallsOf(f)) = 1
              /\ \A i \in CallsOf(f) : returned[i].ok
              /\ Cardinality(WritesOf(f)) = n + 1
              /\ writes[Len(writes) - n] = <<f, "VAULT_ADDR", addr>>
              /\ writes[Len(writes) - (n - 1)] = <<f, "VAULT_TOKEN", TokenOf(f)>>
              /\ \A j \in 1..(n - 1) :
                    /\ writes[Len(writes) - (n - 1) + j]
                         = <<f, ExtraOrder[j], ExtraValue(f, ExtraOrder[j])>>
                    /\ EnvOf(f)[ExtraOrder[j]] = ExtraValue(f, ExtraOrder[j])
              /\ \A j \in n..Len(ExtraOrder) :
                    ExtraOrder[j] \notin {"VAULT_ADDR", "VAULT_TOKEN"} =>
                       /\ ExtraOrder[j] \in DOMAIN EnvOf(f)
                             <=> ExtraOrder[j] \in DOMAIN PreEnvOf(f)
                       /\ ExtraOrder[j] \in DOMAIN EnvOf(f) =>
                             EnvOf(f)[ExtraOrder[j]] = PreEnvOf(f)[ExtraOrder[j]]
    /\ result.stage = "policy" => CallsOf(f) = {}

\* C10, as stated: when an extra_environment template fails for s, the backend
\* has been called once for s, s holds the issued VAULT_TOKEN, the entries
\* before the failing one are written and the failing and later ones are not;
\* when a policy template of s fails the backend is not called for s.
C10_TokenHeldAtExtraFailure ==
    \A f \in ServiceNames : FailedIn(f) =>
        /\ EntriesAroundFailure(f)
        /\ result.stage = "extra" => EnvOf(f)["VAULT_TOKEN"] = TokenOf(f)

\* C10, amended: the same, except that s holds the issued VAULT_TOKEN only if
\* no entry named VAULT_TOKEN precedes the failing one; if one does, s holds
\* that entry's value, the issued token having been written and overwritten.
C10_TokenHeldUnlessOverwritten ==
    \A f \in ServiceNames : FailedIn(f) =>
        /\ EntriesAroundFailure(f)
        /\ result.stage = "extra" =>
              EnvOf(f)["VAULT_TOKEN"] =
                 IF \E j \in 1..(FailingEntry(f) - 1) : ExtraOrder[j] = "VAULT_TOKEN"
                 THEN ExtraValue(f, "VAULT_TOKEN")
                 ELSE TokenOf(f)

\* VAULT_ENV fails for web: HOME, before it, is written; VAULT_ENV and the
\* VAULT_TOKEN entry, after it, are not, and web holds the issued token
C10_Witness ==
    /\ FailedIn("web") /\ InTree("web")
    /\ result.stage = "extra"
    /\ ExtraKeys = {"HOME", "VAULT_ENV", "VAULT_TOKEN"}
    /\ Holds(PreEnvOf("web"), "VAULT_ENV", "old")
    /\ Holds(EnvOf("web"), "HOME", "/srv/web")
    /\ Holds(EnvOf("web"), "VAULT_ENV", "old")
    /\ Holds(EnvOf("web"), "VAULT_TOKEN", "token_2")
    /\ \A i \in CallsOf("web") : returned[i].val = "token_2"

====
